---- MODULE Spec2Model ----
(***************************************************************************)
(* ArxivDigest: the listing scraper with its on-disk cache                 *)
(* (src/src/download_new_papers.py) and the digest pipeline                *)
(* (src/src/action.py, generate_body).                                     *)
(*                                                                         *)
(* A paper is a Python dict, modelled as a function from key strings to    *)
(* values.  Of the eight keys _scrape_page writes, the model carries the   *)
(* three the pipeline reads ("id", "subjects", "submitted"); main_page,    *)
(* pdf, title, authors and abstract are copied through unread until the    *)
(* HTML is built and are left out.                                         *)
(*                                                                         *)
(* Dates are datetime.date values of the year 2024, held as the day of     *)
(* the year (1 = 1 Jan 2024); isoformat/fromisoformat/strptime convert     *)
(* between that and the (year, month, day) text forms.                     *)
(***************************************************************************)
EXTENDS Integers, Sequences, FiniteSets, TLC

VARIABLES
    today,      \* _today_ny(): the calendar day in America/New_York
    cfg,        \* config.yaml: topic, categories, interest, threshold
    judge,      \* what generate_relevance_score returns when it is called
    files,      \* ./data: a function from the paths that exist to their lines
    last,       \* the last top-level call: its arguments and its outcome
    scrapeOk    \* per path, the _scrape_page calls that returned (history)

vars == <<today, cfg, judge, files, last, scrapeOk>>

----------------------------------------------------------------------------
(* Bounds of the model *)

MaxRows == 2        \* rows of one listing page
MaxRanked == 2      \* entries of one judge result
MaxCats == 2        \* length of the configured category list

(* Program constants *)

LOOKBACK_DAYS == 7
CATEGORY_FILTER_ENABLED == TRUE

----------------------------------------------------------------------------
(* Generic helpers *)

SeqsUpTo(S, n) == UNION {[1..k -> S] : k \in 0..n}

Range(s) == {s[i] : i \in DOMAIN s}

Min(a, b) == IF a < b THEN a ELSE b

\* list slicing s[:n]
Take(s, n) == SubSeq(s, 1, Min(n, Len(s)))

\* dict.update: the keys of extra are added to, or overwrite, those of full
dict_update(full, extra) ==
    [k \in DOMAIN full \cup DOMAIN extra |->
        IF k \in DOMAIN extra THEN extra[k] ELSE full[k]]

\* dict.get(key, default)
dict_get(d, key, default) == IF key \in DOMAIN d THEN d[key] ELSE default

----------------------------------------------------------------------------
(* datetime.date within 2024 *)

DaysInMonth == <<31, 29, 31, 30, 31, 30, 31, 31, 30, 31, 30, 31>>

RECURSIVE SumTo(_)
SumTo(m) == IF m = 0 THEN 0 ELSE SumTo(m - 1) + DaysInMonth[m]

\* the days of the year before the first of month m
DaysBefore == [m \in 1..12 |-> SumTo(m - 1)]

DaysBeforeMonth(m) == DaysBefore[m]

\* the month of each day of the year
Months ==
    [d \in 1..SumTo(12) |->
        CHOOSE m \in 1..12 : DaysBefore[m] < d /\ d <= DaysBefore[m] + DaysInMonth[m]]

MonthOf(d) == Months[d]

\* date.isoformat(), strftime("%Y-%m-%d"): "YYYY-MM-DD" as <<year, month, day>>
isoformat(d) == <<2024, MonthOf(d), d - DaysBeforeMonth(MonthOf(d))>>

\* date.fromisoformat("YYYY-MM-DD")
fromisoformat(iso) == DaysBeforeMonth(iso[2]) + iso[3]

\* datetime.strptime(date_str, "%d %b %Y").date(): "D Mon YYYY" as <<day, month, year>>
strptime(dmy) == DaysBeforeMonth(dmy[2]) + dmy[1]

\* the text "D Mon YYYY" a listing prints for the date d
ListingDate(d) == <<d - DaysBeforeMonth(MonthOf(d)), MonthOf(d), 2024>>

----------------------------------------------------------------------------
(* The listing page: dl.find_all("dt") and dl.find_all("dd") *)

\* a row whose list-comments block is missing or holds no "(submitted"
NoComment == <<>>

\* urlopen raising instead of answering
URLError == [ok |-> FALSE, dt |-> <<>>, dd |-> <<>>]

Ids == {"2407.00001", "2407.00002"}

\* the text of a list-subjects block, as its "Name (code)" parts
SubjectTexts ==
    { <<<<"Econometrics", "econ.EM">>>>,
      <<<<"General Economics", "econ.GN">>, <<"Machine Learning", "cs.LG">>>> }

\* every page of at most MaxRows header blocks, each with its detail block, and
\* the malformed pages of one header block without its detail block
PagesOf(ids, subjects, comments) ==
    { pg \in [ok : {TRUE}, dt : SeqsUpTo(ids, MaxRows),
              dd : SeqsUpTo([subjects : subjects, comment : comments], MaxRows)] :
        Len(pg.dd) = Len(pg.dt) \/ (Len(pg.dt) = 1 /\ Len(pg.dd) = 0) }

----------------------------------------------------------------------------
(* download_new_papers.py *)

\* one iteration of the loop of _scrape_page: the dict appended for (dt, dd)
ScrapeRow(dt, dd, day) ==
    LET sub_date == IF dd.comment # NoComment THEN strptime(dd.comment) ELSE day
    IN  ("id" :> dt) @@ ("subjects" :> dd.subjects)
            @@ ("submitted" :> isoformat(sub_date))

\* _scrape_page(url) on the response web: the papers, or the exception raised
_scrape_page(web, day) ==
    IF ~web.ok THEN [raised |-> "URLError", papers |-> <<>>]
    ELSE IF Len(web.dt) # Len(web.dd)
         THEN [raised |-> "AssertionError", papers |-> <<>>]
         ELSE [raised |-> "",
               papers |-> [i \in 1..Len(web.dt) |->
                              ScrapeRow(web.dt[i], web.dd[i], day)]]

\* the insertion order of a paper's keys, which json.dumps follows
KeyOrder ==
    <<"id", "subjects", "submitted", "Relevancy score", "Reasons for match">>

\* json.dumps(r): the line of a dict, as its (key, value) pairs in order
json_dumps(r) ==
    LET ks == SelectSeq(KeyOrder, LAMBDA k : k \in DOMAIN r)
    IN  [i \in 1..Len(ks) |-> <<ks[i], r[ks[i]]>>]

\* json.loads(ln)
json_loads(ln) ==
    [k \in {ln[i][1] : i \in DOMAIN ln} |->
        ln[CHOOSE i \in DOMAIN ln : ln[i][1] = k /\
              \A j \in DOMAIN ln : ln[j][1] = k => j <= i][2]]

\* _save_jsonl(path, rows): open(path, "w") and one line per row
_save_jsonl(fs, path, rows) ==
    [p \in DOMAIN fs \cup {path} |->
        IF p = path THEN [i \in 1..Len(rows) |-> json_dumps(rows[i])] ELSE fs[p]]

\* _load_jsonl(path)
_load_jsonl(fs, path) == [i \in 1..Len(fs[path]) |-> json_loads(fs[path][i])]

\* the cache file of a call: {field_abbr}_{today_str}_{new|pastweek}.jsonl
CachePath(field_abbr, day, days) ==
    IF days = 1 THEN <<field_abbr, isoformat(day), "new">>
    ELSE <<field_abbr, isoformat(day), "pastweek">>

\* FillCache without the os.path.exists test: every call scrapes and saves
FillCacheAlways(fs, path, web, day) ==
    LET got == _scrape_page(web, day)
    IN  IF got.raised # ""
        THEN [raised |-> got.raised, files |-> fs, scraped |-> TRUE]
        ELSE [raised |-> "", files |-> _save_jsonl(fs, path, got.papers),
              scraped |-> TRUE]

\* FillCache opening the cache file for writing before it scrapes
FillCacheOpensFirst(fs, path, web, day) ==
    IF path \in DOMAIN fs THEN [raised |-> "", files |-> fs, scraped |-> FALSE]
    ELSE LET got == _scrape_page(web, day)
         IN  [raised |-> got.raised, files |-> _save_jsonl(fs, path, got.papers),
              scraped |-> TRUE]

\* the scrape-and-save of a cache miss
FillCache(fs, path, web, day) ==
    IF path \in DOMAIN fs THEN [raised |-> "", files |-> fs, scraped |-> FALSE]
    ELSE LET got == _scrape_page(web, day)
         IN  IF got.raised # ""
             THEN [raised |-> got.raised, files |-> fs, scraped |-> TRUE]
             ELSE [raised |-> "", files |-> _save_jsonl(fs, path, got.papers),
                   scraped |-> TRUE]

\* WindowFilter comparing with > in place of >=
WindowFilterStrict(papers, days, day) ==
    IF days > 1
    THEN LET cutoff == day - days
         IN  SelectSeq(papers, LAMBDA p : fromisoformat(p["submitted"]) > cutoff)
    ELSE papers

\* the window filter of get_papers
WindowFilter(papers, days, day) ==
    IF days > 1
    THEN LET cutoff == day - days
         IN  SelectSeq(papers, LAMBDA p : fromisoformat(p["submitted"]) >= cutoff)
    ELSE papers

\* `if limit: papers = papers[:limit]`; limit = None is held as 0, which is as falsy
LimitTo(papers, limit) == IF limit # 0 THEN Take(papers, limit) ELSE papers

\* get_papers(field_abbr, days, limit) on the files fs, the listing answering web
get_papers(fs, day, field_abbr, days, limit, web) ==
    LET cache == CachePath(field_abbr, day, days)
        fill == FillCache(fs, cache, web, day)
    IN  IF fill.raised # ""
        THEN [raised |-> fill.raised, files |-> fill.files,
              scraped |-> fill.scraped, papers |-> <<>>]
        ELSE [raised |-> "", files |-> fill.files, scraped |-> fill.scraped,
              papers |-> LimitTo(WindowFilter(_load_jsonl(fill.files, cache),
                                              days, day), limit)]

----------------------------------------------------------------------------
(* action.py *)

topics ==
    [t \in {"Physics", "Mathematics", "Computer Science", "Quantitative Biology",
            "Quantitative Finance", "Statistics",
            "Electrical Engineering and Systems Science", "Economics"} |->
        CASE t = "Physics" -> ""
          [] t = "Mathematics" -> "math"
          [] t = "Computer Science" -> "cs"
          [] t = "Quantitative Biology" -> "q-bio"
          [] t = "Quantitative Finance" -> "q-fin"
          [] t = "Statistics" -> "stat"
          [] t = "Electrical Engineering and Systems Science" -> "eess"
          [] t = "Economics" -> "econ"]

\* the entries of physics_topics the model's configurations can name
physics_topics ==
    [t \in {"Physics", "Quantum Physics", "Nuclear Theory"} |->
        CASE t = "Physics" -> "physics"
          [] t = "Quantum Physics" -> "quant-ph"
          [] t = "Nuclear Theory" -> "nucl-th"]

\* the entries of category_map the model's configurations can name
category_map ==
    [t \in {"Quantum Physics", "Nuclear Theory", "Economics"} |->
        CASE t = "Quantum Physics" -> <<"None">>
          [] t = "Nuclear Theory" -> <<"None">>
          [] t = "Economics" ->
                <<"Econometrics", "General Economics", "Theoretical Economics">>]

\* relevancy.process_subject_fields: the category names of a subjects text
process_subject_fields(subjects) == [i \in DOMAIN subjects |-> subjects[i][1]]

\* InvalidCategories reporting the whole request once one entry is invalid
InvalidCategoriesAll(topic, categories) ==
    IF \E i \in DOMAIN categories : categories[i] \notin Range(category_map[topic])
    THEN categories
    ELSE <<>>

\* step 3: `invalid = [c for c in categories if c not in category_map[topic]]`
InvalidCategories(topic, categories) ==
    SelectSeq(categories, LAMBDA c : c \notin Range(category_map[topic]))

\* step 3: the papers whose subjects meet the requested categories
CategoryFilter(papers, categories) ==
    SelectSeq(papers, LAMBDA p :
        Range(process_subject_fields(p["subjects"])) \cap Range(categories) # {})

\* StitchScores with scored.insert(0, full) in place of scored.append(full)
StitchScoresReversed(papers, ranked, threshold) ==
    LET n == Min(Len(papers), Len(ranked))
        kept == SelectSeq([i \in 1..n |-> i], LAMBDA i :
                    dict_get(ranked[i], "Relevancy score", 0) >= threshold)
    IN  [j \in 1..Len(kept) |->
            dict_update(papers[kept[Len(kept) + 1 - j]],
                        ranked[kept[Len(kept) + 1 - j]])]

\* step 5: zip(papers, ranked), the threshold test, full.update(extra)
StitchScores(papers, ranked, threshold) ==
    LET n == Min(Len(papers), Len(ranked))
        kept == SelectSeq([i \in 1..n |-> i], LAMBDA i :
                    dict_get(ranked[i], "Relevancy score", 0) >= threshold)
    IN  [j \in 1..Len(kept) |-> dict_update(papers[kept[j]], ranked[kept[j]])]

\* step 6: one item of the HTML per paper, with its score and reason
BuildHtml(papers, interest) ==
    [i \in 1..Len(papers) |->
        IF interest # ""
        THEN <<papers[i]["id"], dict_get(papers[i], "Relevancy score", ""),
               dict_get(papers[i], "Reasons for match", "")>>
        ELSE <<papers[i]["id"]>>]

\* a raise of generate_body before or in get_papers, or at steps 3 and 4
Raised(what, invalid, fs, scraped, fetched) ==
    [raised |-> what, invalid |-> invalid, files |-> fs, scraped |-> scraped,
     fetched |-> fetched, filtered |-> <<>>, papers |-> <<>>, body |-> <<>>]

\* steps 3 to 6 of generate_body, on the papers get_papers returned
FilterAndScore(topic, categories, interest, threshold, got, ranked) ==
    LET filtering == CATEGORY_FILTER_ENABLED /\ categories # <<>>
        invalid == IF filtering THEN InvalidCategories(topic, categories) ELSE <<>>
        filtered == IF filtering THEN CategoryFilter(got.papers, categories)
                    ELSE got.papers
        scored == IF interest # "" THEN StitchScores(filtered, ranked, threshold)
                  ELSE filtered
    IN  IF invalid # <<>>
        THEN Raised("RuntimeError: not valid for topic", invalid, got.files,
                    got.scraped, got.papers)
        ELSE IF filtered = <<>>
        THEN Raised("RuntimeError: No papers matched the current settings.",
                    <<>>, got.files, got.scraped, got.papers)
        ELSE [raised |-> "", invalid |-> <<>>, files |-> got.files,
              scraped |-> got.scraped, fetched |-> got.papers,
              filtered |-> filtered, papers |-> scored,
              body |-> BuildHtml(scored, interest)]

\* step 1: the arXiv abbreviation of a topic that resolves
Abbr(topic) ==
    IF topic \in DOMAIN physics_topics THEN physics_topics[topic] ELSE topics[topic]

Resolves(topic) ==
    topic # "Physics" /\ topic \in DOMAIN physics_topics \cup DOMAIN topics

\* step 2: `lookback = LOOKBACK_DAYS if CATEGORY_FILTER_ENABLED else 1`
Lookback == IF CATEGORY_FILTER_ENABLED THEN LOOKBACK_DAYS ELSE 1

\* generate_body saving the scored papers back to the cache file
generate_bodySavesScored(fs, day, topic, categories, interest, threshold, web, ranked) ==
    IF topic = "Physics"
    THEN Raised("RuntimeError: You must choose a physics subtopic.", <<>>, fs,
                FALSE, <<>>)
    ELSE IF ~Resolves(topic)
    THEN Raised("RuntimeError: Invalid topic", <<>>, fs, FALSE, <<>>)
    ELSE LET got == get_papers(fs, day, Abbr(topic), Lookback, 0, web)
             r == FilterAndScore(topic, categories, interest, threshold, got, ranked)
         IN  IF got.raised # ""
             THEN Raised(got.raised, <<>>, got.files, got.scraped, <<>>)
             ELSE IF r.raised # "" THEN r
             ELSE [r EXCEPT !.files =
                      _save_jsonl(r.files, CachePath(Abbr(topic), day, Lookback),
                                  r.papers)]

\* generate_body(topic, categories, interest, threshold)
generate_body(fs, day, topic, categories, interest, threshold, web, ranked) ==
    IF topic = "Physics"
    THEN Raised("RuntimeError: You must choose a physics subtopic.", <<>>, fs,
                FALSE, <<>>)
    ELSE IF ~Resolves(topic)
    THEN Raised("RuntimeError: Invalid topic", <<>>, fs, FALSE, <<>>)
    ELSE LET got == get_papers(fs, day, Abbr(topic), Lookback, 0, web)
         IN  IF got.raised # ""
             THEN Raised(got.raised, <<>>, got.files, got.scraped, <<>>)
             ELSE FilterAndScore(topic, categories, interest, threshold, got, ranked)

----------------------------------------------------------------------------
(* Calls of the public entry point get_papers *)

Fields == {"econ"}
DaysArgs == {1, LOOKBACK_DAYS}
Limits == {0, 1}

Idle ==
    [op |-> "none", field_abbr |-> "", days |-> 0, limit |-> 0, raised |-> "",
     scraped |-> FALSE, papers |-> <<>>]

DefaultCfg ==
    [topic |-> "Economics", categories |-> <<>>, interest |-> "", threshold |-> 0]

\* the date as _today_ny() gives it: 7 Mar 2024 (cutoff 29 Feb) or 7 Jul 2024 (30 Jun)
Todays == {fromisoformat(<<2024, 3, 7>>), fromisoformat(<<2024, 7, 7>>)}

\* a listing without entries
EmptyPage == [ok |-> TRUE, dt |-> <<>>, dd |-> <<>>]

\* what urlopen would answer: one of pages or a failure; once the key has its
\* file the code asks nothing, and the listing is held to fail or to be empty
WebAnswers(fs, path, pages) ==
    IF path \in DOMAIN fs THEN {URLError, EmptyPage} ELSE pages \cup {URLError}

Count(f, p) == IF p \in DOMAIN f THEN f[p] ELSE 0

Bump(f, p) == [q \in DOMAIN f \cup {p} |-> IF q = p THEN Count(f, p) + 1 ELSE f[q]]

\* one call get_papers(field_abbr, days, limit), urlopen answering with one of
\* pages or failing
GetPapers(field_abbr, days, limit, pages) ==
    \E web \in WebAnswers(files, CachePath(field_abbr, today, days), pages) :
      \E r \in {get_papers(files, today, field_abbr, days, limit, web)} :
        LET path == CachePath(field_abbr, today, days)
        IN  /\ files' = r.files
            /\ last' = [op |-> "get_papers", field_abbr |-> field_abbr,
                        days |-> days, limit |-> limit, raised |-> r.raised,
                        scraped |-> r.scraped, papers |-> r.papers]
            /\ scrapeOk' = IF r.scraped /\ r.raised = "" THEN Bump(scrapeOk, path)
                           ELSE scrapeOk
            /\ UNCHANGED <<today, cfg, judge>>

\* the listings served to direct calls: one id, one subject text, and a comment
\* that is missing or dated the day before the 7-day cutoff or the cutoff
ListingPagesOn ==
    [d \in Todays |->
        PagesOf({"2407.00001"}, {<<<<"Econometrics", "econ.EM">>>>},
                {NoComment, ListingDate(d - LOOKBACK_DAYS - 1),
                 ListingDate(d - LOOKBACK_DAYS)})]

ListingPages == ListingPagesOn[today]

InitCache ==
    /\ today \in Todays
    /\ cfg = DefaultCfg
    /\ judge = <<>>
    /\ files = <<>>
    /\ last = Idle
    /\ scrapeOk = <<>>

NextCache ==
    \E f \in Fields, days \in DaysArgs, limit \in Limits :
        GetPapers(f, days, limit, ListingPages)

SpecCache == InitCache /\ [][NextCache]_vars

----------------------------------------------------------------------------
(* Runs of the digest: `python action.py --config config.yaml` *)

ConfigTopics == {"Economics", "Quantum Physics", "Physics", "Astrology"}
CategoryNames == {"Econometrics", "Machine Learning", "Robotics"}
Interests == {"", "causal inference"}
Thresholds == {5}
Scores == {4, 5}

\* an id no listing carries: a hallucinated entry
Hallucinated == "2407.99999"

Configs ==
    [topic : ConfigTopics, categories : SeqsUpTo(CategoryNames, MaxCats),
     interest : Interests, threshold : Thresholds]

\* one entry of `ranked`: it holds only the two keys (action.py:295); the paper
\* the judge wrote it for is kept as the content of its reason
JudgeEntry(id, score) ==
    ("Relevancy score" :> score) @@ ("Reasons for match" :> id)

\* relevancy.generate_relevance_score: entries for any of the papers, in any
\* order, and for ids that match no paper
JudgeResults ==
    SeqsUpTo({JudgeEntry(id, sc) : id \in Ids \cup {Hallucinated}, sc \in Scores},
             MaxRanked)

\* whether a run with configuration c can reach step 5
CallsJudge(c) ==
    /\ c.interest # ""
    /\ Resolves(c.topic)
    /\ c.categories # <<>> => InvalidCategories(c.topic, c.categories) = <<>>

FetchErrors == {"URLError", "AssertionError"}

\* the day of the digest's runs
DigestDay == fromisoformat(<<2024, 7, 7>>)

\* the listings served to the digest: every row dated the cutoff
DigestPages ==
    PagesOf(Ids, SubjectTexts, {ListingDate(DigestDay - LOOKBACK_DAYS)})

GenerateBody ==
    \E web \in (IF Resolves(cfg.topic)
                THEN WebAnswers(files, CachePath(Abbr(cfg.topic), today, Lookback),
                                DigestPages)
                ELSE {URLError}) :
      \E r \in {generate_body(files, today, cfg.topic, cfg.categories,
                              cfg.interest, cfg.threshold, web, judge)} :
        /\ files' = r.files
        /\ last' = [op |-> "generate_body", raised |-> r.raised,
                    invalid |-> r.invalid,
                    fetched |-> r.fetched, filtered |-> r.filtered,
                    papers |-> r.papers, body |-> r.body]
        /\ scrapeOk' = IF r.scraped /\ r.raised \notin FetchErrors
                       THEN Bump(scrapeOk, CachePath(Abbr(cfg.topic), today, Lookback))
                       ELSE scrapeOk
        /\ UNCHANGED <<today, cfg, judge>>

\* a later call of get_papers for the key the digest has filled
GetPapersAgain ==
    /\ Resolves(cfg.topic)
    /\ CachePath(Abbr(cfg.topic), today, Lookback) \in DOMAIN files
    /\ GetPapers(Abbr(cfg.topic), Lookback, 0, DigestPages)

InitDigest ==
    /\ today = DigestDay
    /\ cfg \in Configs
    /\ judge \in (IF CallsJudge(cfg) THEN JudgeResults ELSE {<<>>})
    /\ files = <<>>
    /\ last = Idle
    /\ scrapeOk = <<>>

NextDigest == GenerateBody \/ GetPapersAgain

SpecDigest == InitDigest /\ [][NextDigest]_vars

----------------------------------------------------------------------------
(* Properties *)

AnnotationKeys == {"Relevancy score", "Reasons for match"}

InvalidCategoryError == "RuntimeError: not valid for topic"

\* the cache file of the last get_papers call
LastPath == CachePath(last.field_abbr, today, last.days)

\* "YYYY-MM-DD" a before "YYYY-MM-DD" b, read off the texts
IsoBefore(a, b) ==
    \/ a[1] < b[1]
    \/ a[1] = b[1] /\ a[2] < b[2]
    \/ a[1] = b[1] /\ a[2] = b[2] /\ a[3] < b[3]

\* a paper without the keys the scoring step adds
Strip(p) == [k \in DOMAIN p \ AnnotationKeys |-> p[k]]

RECURSIVE IsSubseq(_, _)
IsSubseq(s, t) ==
    IF s = <<>> THEN TRUE
    ELSE IF t = <<>> THEN FALSE
    ELSE IF Head(s) = Head(t) THEN IsSubseq(Tail(s), Tail(t))
    ELSE IsSubseq(s, Tail(t))

\* a run of generate_body that returned a body
Returned == last.op = "generate_body" /\ last.raised = ""

\* a run of generate_body that returned after the scoring step
Scored == Returned /\ cfg.interest # ""

\* the ids of the papers the scoring step was given, and of those it kept
InputIds == {last.filtered[i]["id"] : i \in DOMAIN last.filtered}
KeptIds == {last.papers[i]["id"] : i \in DOMAIN last.papers}

\* C1: in the scoring step a paper carries a relevance annotation only if the
\* judge returned an entry for that same paper's id; an entry for an id that
\* matches no input paper annotates no paper.
C1_AnnotatedOnlyById ==
    Scored =>
        \A i \in DOMAIN last.papers :
            "Reasons for match" \in DOMAIN last.papers[i] =>
                last.papers[i]["Reasons for match"] = last.papers[i]["id"]

\* C2: for one (field_abbr, window kind, day), two successive calls of
\* get_papers with the same arguments that return give identical papers, and
\* the page scrape is carried out at most once for the key.
C2_IdempotentCache ==
    /\ [](\A p \in DOMAIN scrapeOk : scrapeOk[p] <= 1)
    /\ [][(/\ last.op = "get_papers" /\ last'.op = "get_papers"
           /\ last.raised = "" /\ last'.raised = ""
           /\ last'.field_abbr = last.field_abbr
           /\ last'.days = last.days
           /\ last'.limit = last.limit)
          => last'.papers = last.papers]_vars

\* C2 witness: a call answered from the cache, with a paper, after the one scrape
C2_Witness ==
    /\ last.op = "get_papers" /\ last.raised = "" /\ ~last.scraped
    /\ last.papers # <<>>
    /\ scrapeOk[LastPath] = 1

\* C3: generate_body never returns with an empty paper set: when the category
\* filter or the relevance threshold removes every paper the run ends in a
\* no-results error.
C3_NeverEmptySuccess == Returned => last.papers # <<>>

\* C4: when the scraped records repeat an id, the paper set get_papers returns
\* and generate_body filters holds each id exactly once.
C4_EachIdOnce ==
    Returned =>
        \A i, j \in DOMAIN last.filtered :
            last.filtered[i]["id"] = last.filtered[j]["id"] => i = j

\* C5: with days > 1 get_papers keeps exactly the cached records whose
\* submitted date is on or after today - days (the cutoff itself is kept, the
\* day before it is dropped); with days = 1 the window filter removes nothing.
C5_WindowBoundary ==
    (last.op = "get_papers" /\ last.raised = "") =>
        LET cached == _load_jsonl(files, LastPath)
            cutoff == isoformat(today - last.days)
            inWindow == IF last.days > 1
                        THEN SelectSeq(cached, LAMBDA p :
                                 ~IsoBefore(p["submitted"], cutoff))
                        ELSE cached
        IN  last.papers = IF last.limit # 0 THEN Take(inWindow, last.limit)
                          ELSE inWindow

\* C5 witness: a 7-day call over a file with a record dated the cutoff, which
\* it returns, and a record dated the day before, which it drops
C5_Witness ==
    /\ last.op = "get_papers" /\ last.raised = ""
    /\ last.days = LOOKBACK_DAYS /\ last.limit = 0
    /\ \E i, j \in DOMAIN files[LastPath] :
          /\ json_loads(files[LastPath][i])["submitted"]
                = isoformat(today - LOOKBACK_DAYS)
          /\ json_loads(files[LastPath][j])["submitted"]
                = isoformat(today - LOOKBACK_DAYS - 1)
    /\ Len(last.papers) = 1
    /\ last.papers[1]["submitted"] = isoformat(today - LOOKBACK_DAYS)

\* C6: a run that reaches the category filter with a non-empty category list
\* fails with the invalid-category error exactly when a requested category is
\* not in category_map[topic], and the error then names the requested
\* categories that are not in it, in request order.
C6_InvalidCategories ==
    (/\ last.op = "generate_body" /\ Resolves(cfg.topic)
     /\ last.raised \notin FetchErrors
     /\ CATEGORY_FILTER_ENABLED /\ cfg.categories # <<>>)
    => LET bad == SelectSeq(cfg.categories, LAMBDA c :
                      \A k \in DOMAIN category_map[cfg.topic] :
                          category_map[cfg.topic][k] # c)
       IN  IF bad # <<>>
           THEN last.raised = InvalidCategoryError /\ last.invalid = bad
           ELSE last.raised # InvalidCategoryError

\* C6 witness: two invalid categories requested around a valid one
C6_Witness ==
    /\ last.op = "generate_body" /\ last.raised = InvalidCategoryError
    /\ Len(cfg.categories) > Len(last.invalid)
    /\ last.invalid # <<>>

\* C7: a paper the judge identified with a score equal to the threshold is in
\* the final set, and a paper it identified with threshold - 1 is not.
C7_ThresholdInclusive ==
    Scored =>
        \A i \in DOMAIN judge :
            LET id == judge[i]["Reasons for match"]
                others == {judge[j]["Relevancy score"] :
                              j \in {k \in DOMAIN judge :
                                        judge[k]["Reasons for match"] = id}}
            IN  id \in InputIds =>
                    /\ others = {cfg.threshold} => id \in KeptIds
                    /\ others = {cfg.threshold - 1} => id \notin KeptIds

\* C8: a scrape that fails on a cache miss propagates and leaves the files as
\* they were, with no file for the key; and a call that finds no file for its
\* key scrapes.
C8_FailedScrapeLeavesNoCache ==
    [][last'.op = "get_papers" =>
        LET path == CachePath(last'.field_abbr, today, last'.days)
        IN  /\ last'.raised # "" => files' = files /\ path \notin DOMAIN files'
            /\ path \notin DOMAIN files => last'.scraped
            /\ (path \notin DOMAIN files /\ last'.raised = "")
                  => Count(scrapeOk', path) = Count(scrapeOk, path) + 1]_vars

\* C8 witness: a call whose scrape failed on the page's shape, the key still
\* without a file
C8_Witness ==
    /\ last.op = "get_papers" /\ last.raised = "AssertionError" /\ last.scraped
    /\ LastPath \notin DOMAIN files

\* C9: no call changes a cache file that exists, no line of a cache file
\* carries an annotation key, and get_papers returns papers without them, also
\* after a run of generate_body annotated its papers.
C9_CacheNeverAnnotated ==
    /\ [][\A p \in DOMAIN files : p \in DOMAIN files' /\ files'[p] = files[p]]_vars
    /\ [](\A p \in DOMAIN files : \A i \in DOMAIN files[p] :
              {files[p][i][k][1] : k \in DOMAIN files[p][i]} \cap AnnotationKeys = {})
    /\ []((last.op = "get_papers" /\ last.raised = "") =>
              \A i \in DOMAIN last.papers :
                  DOMAIN last.papers[i] \cap AnnotationKeys = {})

\* C9 witness: a later get_papers call returning the papers of a file that
\* only a run of generate_body which annotated its first paper can have written
C9_Witness ==
    /\ last.op = "get_papers" /\ last.raised = "" /\ last.papers # <<>>
    /\ cfg.categories = <<>> /\ cfg.interest # ""
    /\ judge # <<>> /\ judge[1]["Relevancy score"] >= cfg.threshold

====
